---- MODULE Spec2Model ----
(***************************************************************************)
(* A model of scripts/sync_notion.py: the Notion -> Markdown sync.         *)
(*                                                                         *)
(* Python strings are modelled as sequences of one-character strings, so   *)
(* that lower(), replace(), repr() and pathlib's parsing are computed      *)
(* character by character.  A function that may raise returns a record     *)
(* [raised, val].                                                          *)
(***************************************************************************)
EXTENDS Integers, Sequences, FiniteSets, TLC

VARIABLES
    pc,               \* position of the script: see the actions
    pages,            \* main: the list query_database() returned
    idx,              \* main: 1-based position of the page being processed
    blocks,           \* main: the list get_page_content() returned
    markdown_body,    \* main: the result of blocks_to_markdown(blocks)
    fs,               \* the filesystem: [dirs: set of paths, files: path -> content]
    stdout,           \* the messages printed so far
    rich_text_array,  \* the argument of a call of rich_text_to_plaintext
    text,             \* the result of that call, [raised, val]
    saved             \* history: <<position, path>> of every completed save, in order

vars == <<pc, pages, idx, blocks, markdown_body, fs, stdout, rich_text_array, text, saved>>

(***************************************************************************)
(* Bounds of the model.                                                    *)
(***************************************************************************)
MaxRuns == 3      \* longest rich-text list given to rich_text_to_plaintext
MaxBlocks == 2    \* longest block list given to blocks_to_markdown
MaxLen == 3       \* longest title / category name, in characters
MaxTags == 2      \* most tags of a page
MaxPages == 2     \* most pages returned by the query

(***************************************************************************)
(* Strings.                                                                *)
(***************************************************************************)
NL == "\n"

\* All sequences over S of length at most n.
SeqsUpTo(S, n) == UNION {[1..k -> S] : k \in 0..n}

RECURSIVE Flat(_)
\* The concatenation of a sequence of strings.
Flat(ss) == IF ss = <<>> THEN <<>> ELSE Head(ss) \o Flat(Tail(ss))

Ok(v) == [raised |-> FALSE, val |-> v]
Raised == [raised |-> TRUE, val |-> <<>>]

(***************************************************************************)
(* Rich text.  A part of a rich_text list as the Notion API returns it:    *)
(* "text" is absent (a mention or an equation), null, or an object with    *)
(* "content"; "plain_text" is always there.                                *)
(***************************************************************************)
TextPart(c) == [text |-> [kind |-> "obj", content |-> c], plain_text |-> c]
MentionPart == [text |-> [kind |-> "absent", content |-> <<>>], plain_text |-> <<"@">>]
NullPart == [text |-> [kind |-> "null", content |-> <<>>], plain_text |-> <<"n">>]

\* The test missing its first half: part["text"] is read whether or not it is there.
HasUsableTextNoKeyTest(part) == part.text.kind # "null"

\* "text" in part and part["text"] is not None
HasUsableText(part) == part.text.kind # "absent" /\ part.text.kind # "null"

\* One iteration of the loop of rich_text_to_plaintext on the accumulator acc.
\* Reading part["text"] of a part without it raises KeyError; reading
\* None["content"] raises TypeError.
AppendPart(acc, part) ==
    IF acc.raised THEN acc
    ELSE IF HasUsableText(part)
         THEN IF part.text.kind = "obj" THEN Ok(acc.val \o part.text.content) ELSE Raised
         ELSE acc

RECURSIVE PartsLoop(_, _, _)
PartsLoop(arr, k, acc) ==
    IF k > Len(arr) THEN acc ELSE PartsLoop(arr, k + 1, AppendPart(acc, arr[k]))

rich_text_to_plaintext(arr) == PartsLoop(arr, 1, Ok(<<>>))

(***************************************************************************)
(* Blocks.  block[block["type"]] holds "rich_text" and, for code,          *)
(* "language".                                                             *)
(***************************************************************************)
Block(t, rt, lang) == [type |-> t, rich_text |-> rt, language |-> lang]

\* The backquote character (written as a name: a TLA+ string cannot hold it).
BQ == "backquote"

Fence == <<BQ, BQ, BQ>>

\* The marker without its space.
NumberedMarkerNoSpace == <<"1", ".">>

\* The literal marker of the numbered_list_item branch: no ordinal is computed.
NumberedMarker == <<"1", ".", " ">>

\* No branch of the if/elif chain matches: md is left as it is.
UnrecognizedFragment == <<>>

RecognizedTypes ==
    {"paragraph", "heading_1", "heading_2", "heading_3",
     "bulleted_list_item", "numbered_list_item", "code"}

\* What one iteration of the loop of blocks_to_markdown appends to md;
\* raises when the flattener does.
Fragment(block) ==
    LET t == rich_text_to_plaintext(block.rich_text) IN
    IF block.type \notin RecognizedTypes THEN Ok(UnrecognizedFragment)
    ELSE IF t.raised THEN Raised
    ELSE IF block.type = "paragraph" THEN Ok(t.val \o <<NL, NL>>)
    ELSE IF block.type = "heading_1" THEN Ok(<<"#", " ">> \o t.val \o <<NL, NL>>)
    ELSE IF block.type = "heading_2" THEN Ok(<<"#", "#", " ">> \o t.val \o <<NL, NL>>)
    ELSE IF block.type = "heading_3" THEN Ok(<<"#", "#", "#", " ">> \o t.val \o <<NL, NL>>)
    ELSE IF block.type = "bulleted_list_item" THEN Ok(<<"-", " ">> \o t.val \o <<NL>>)
    ELSE IF block.type = "numbered_list_item" THEN Ok(NumberedMarker \o t.val \o <<NL>>)
    ELSE Ok(Fence \o block.language \o <<NL>> \o t.val \o <<NL>> \o Fence \o <<NL, NL>>)

\* md = fragment + md: the fragments accumulate in reverse.
AppendFragmentReversed(md, frag) ==
    IF md.raised \/ frag.raised THEN Raised ELSE Ok(frag.val \o md.val)

\* md += fragment
AppendFragment(md, frag) ==
    IF md.raised \/ frag.raised THEN Raised ELSE Ok(md.val \o frag.val)

RECURSIVE BlocksLoop(_, _, _)
BlocksLoop(bs, k, md) ==
    IF k > Len(bs) THEN md
    ELSE BlocksLoop(bs, k + 1, AppendFragment(md, Fragment(bs[k])))

blocks_to_markdown(bs) == BlocksLoop(bs, 1, Ok(<<>>))

(***************************************************************************)
(* str.lower(), str.replace() on one-character patterns, str.join(), repr. *)
(***************************************************************************)
UpperCase ==
    <<"A", "B", "C", "D", "E", "F", "G", "H", "I", "J", "K", "L", "M",
      "N", "O", "P", "Q", "R", "S", "T", "U", "V", "W", "X", "Y", "Z">>
LowerCase ==
    <<"a", "b", "c", "d", "e", "f", "g", "h", "i", "j", "k", "l", "m",
      "n", "o", "p", "q", "r", "s", "t", "u", "v", "w", "x", "y", "z">>

LowerChar(c) ==
    IF \E k \in DOMAIN UpperCase : UpperCase[k] = c
    THEN LowerCase[CHOOSE k \in DOMAIN UpperCase : UpperCase[k] = c]
    ELSE c

lower(s) == [k \in 1..Len(s) |-> LowerChar(s[k])]

replace(s, old, new) == [k \in 1..Len(s) |-> IF s[k] = old THEN new ELSE s[k]]

RECURSIVE join(_, _)
join(sep, ss) ==
    IF ss = <<>> THEN <<>>
    ELSE IF Len(ss) = 1 THEN ss[1]
    ELSE ss[1] \o sep \o join(sep, Tail(ss))

Chars(s) == {s[k] : k \in 1..Len(s)}

\* repr() of a str of printable characters: single quotes, unless the string
\* holds a single quote and no double quote; a backslash and the chosen quote
\* are escaped.
ReprStr(s) ==
    LET q == IF "'" \in Chars(s) /\ "\"" \notin Chars(s) THEN "\"" ELSE "'"
        esc(c) == IF c = "\\" THEN <<"\\", "\\">>
                  ELSE IF c = q THEN <<"\\", q>>
                  ELSE IF c = NL THEN <<"\\", "n">>
                  ELSE <<c>>
    IN <<q>> \o Flat([k \in 1..Len(s) |-> esc(s[k])]) \o <<q>>

\* f"{tags}": str() of a list is "[" + ", ".join(repr(x)) + "]".
ReprList(l) ==
    <<"[">> \o join(<<",", " ">>, [k \in 1..Len(l) |-> ReprStr(l[k])]) \o <<"]">>

(***************************************************************************)
(* pathlib.  A path is [root, parts]: PurePosixPath keeps a root of "",    *)
(* "/" or "//" (exactly two leading slashes) and drops empty and "."       *)
(* segments.                                                               *)
(***************************************************************************)
RECURSIVE SplitOn(_, _)
SplitOn(s, c) ==
    IF c \notin Chars(s) THEN <<s>>
    ELSE LET k == CHOOSE j \in 1..Len(s) : s[j] = c /\ \A m \in 1..(j - 1) : s[m] # c
         IN <<SubSeq(s, 1, k - 1)>> \o SplitOn(SubSeq(s, k + 1, Len(s)), c)

KeptSegment(seg) == seg # <<>> /\ seg # <<".">>

ParseRoot(s) ==
    IF Len(s) >= 1 /\ s[1] = "/"
    THEN IF Len(s) >= 2 /\ s[2] = "/" /\ ~(Len(s) >= 3 /\ s[3] = "/")
         THEN <<"/", "/">>
         ELSE <<"/">>
    ELSE <<>>

ParsePath(s) == [root |-> ParseRoot(s), parts |-> SelectSeq(SplitOn(s, "/"), KeptSegment)]

\* p / s: an absolute right operand replaces the left one.
PathDiv(p, s) ==
    LET q == ParsePath(s) IN
    IF q.root # <<>> THEN q ELSE [root |-> p.root, parts |-> p.parts \o q.parts]

\* str(p)
PathStr(p) ==
    IF p.root = <<>> /\ p.parts = <<>> THEN <<".">>
    ELSE p.root \o join(<<"/">>, p.parts)

\* OUTPUT_DIR = Path("notes")
OUTPUT_DIR == ParsePath(<<"n", "o", "t", "e", "s">>)

(***************************************************************************)
(* The filesystem: the directories and the regular files, each named by   *)
(* the string of its path ("//x" names what "/x" names).  Relative paths   *)
(* are relative to the working directory ".", which no absolute path of    *)
(* the model reaches.                                                      *)
(***************************************************************************)
Prefix(p, k) == [root |-> p.root, parts |-> SubSeq(p.parts, 1, k)]

FsKey(p) == PathStr([root |-> IF p.root = <<>> THEN <<>> ELSE <<"/">>, parts |-> p.parts])

\* Path.mkdir(parents=True, exist_ok=True): every missing directory of the
\* chain is created; a regular file in the chain raises (FileExistsError,
\* NotADirectoryError) before anything is created.
Mkdir(f, p) ==
    LET chain == {FsKey(Prefix(p, k)) : k \in 0..Len(p.parts)} IN
    IF \E key \in chain : key \in DOMAIN f.files
    THEN [raised |-> TRUE, fs |-> f]
    ELSE [raised |-> FALSE, fs |-> [f EXCEPT !.dirs = @ \cup chain]]

\* Mode "a": what is written is added to what the file holds.
AppendWrite(old, new) == old \o new

\* Mode "w": the file is truncated, then written.
TruncateWrite(old, new) == new

\* open(p, "w") and the writes: the parent must be a directory
\* (FileNotFoundError, NotADirectoryError) and p itself no directory
\* (IsADirectoryError).
OpenWrite(f, p, content) ==
    LET parent == FsKey(Prefix(p, Len(p.parts) - 1))
        key == FsKey(p)
        old == IF key \in DOMAIN f.files THEN f.files[key] ELSE <<>>
    IN IF p.parts = <<>> \/ parent \notin f.dirs \/ key \in f.dirs
       THEN [raised |-> TRUE, fs |-> f]
       ELSE [raised |-> FALSE,
             fs |-> [f EXCEPT !.files =
                        [k \in DOMAIN f.files \cup {key} |->
                            IF k = key THEN TruncateWrite(old, content) ELSE f.files[k]]]]

\* The filesystem once the module is loaded: OUTPUT_DIR.mkdir(parents=True,
\* exist_ok=True) has run on a tree f.
AfterImport(f) == Mkdir(f, OUTPUT_DIR).fs

(***************************************************************************)
(* Pages.  props["Title"] and props["Category"] may be missing;            *)
(* props["Title"]["title"] may be empty; props["Category"]["select"] may   *)
(* be null.                                                                *)
(***************************************************************************)
Page(i, t, c, tg, sm, le) ==
    [id |-> i, title |-> t, category |-> c, tags |-> tg, summary |-> sm,
     last_edited_time |-> le]

TitleOf(l) == [kind |-> "list", list |-> l]
NoTitle == [kind |-> "absent", list |-> <<>>]
CategoryOf(n) == [kind |-> "obj", name |-> n]
NoCategory == [kind |-> "absent", name |-> <<>>]
NullCategory == [kind |-> "null", name |-> <<>>]

\* props["Title"]["title"][0]["plain_text"]: KeyError, IndexError
ExtractTitle(page) ==
    IF page.title.kind = "absent" \/ page.title.list = <<>> THEN Raised
    ELSE Ok(page.title.list[1].plain_text)

\* A defensive read: a missing or null category becomes the empty name.
ExtractCategoryDefaulting(page) == Ok(page.category.name)

\* props["Category"]["select"]["name"]: KeyError, TypeError on None
ExtractCategory(page) ==
    IF page.category.kind # "obj" THEN Raised ELSE Ok(page.category.name)

\* [t["name"] for t in props["Tags"]["multi_select"]]
ExtractTags(page) == page.tags

\* props["Summary"]["rich_text"][0]["plain_text"] if props["Summary"]["rich_text"] else ""
ExtractSummary(page) ==
    IF page.summary # <<>> THEN page.summary[1].plain_text ELSE <<>>

\* OUTPUT_DIR / category.replace(" ", "-").lower()
CategoryFolder(category) == PathDiv(OUTPUT_DIR, lower(replace(category, " ", "-")))

\* f"{title.replace(' ', '_').lower()}.md"
FileName(title) == lower(replace(title, " ", "_")) \o <<".", "m", "d">>

\* category_folder / filename
FilePath(title, category) == PathDiv(CategoryFolder(category), FileName(title))

Dashes == <<"-", "-", "-">>

\* The frontmatter with summary ahead of last_updated.
FrontmatterSummaryFirst(title, category, tags, last_edited, summary) ==
    Dashes \o <<NL>>
    \o <<"t", "i", "t", "l", "e", ":", " ", "\"">> \o title \o <<"\"", NL>>
    \o <<"c", "a", "t", "e", "g", "o", "r", "y", ":", " ", "\"">> \o category \o <<"\"", NL>>
    \o <<"t", "a", "g", "s", ":", " ">> \o ReprList(tags) \o <<NL>>
    \o <<"s", "u", "m", "m", "a", "r", "y", ":", " ", "\"">> \o summary \o <<"\"", NL>>
    \o <<"l", "a", "s", "t", "_", "u", "p", "d", "a", "t", "e", "d", ":", " ", "\"">>
    \o last_edited \o <<"\"", NL>>
    \o Dashes \o <<NL, NL>>

\* The f-string of lines 114-122.
Frontmatter(title, category, tags, last_edited, summary) ==
    Dashes \o <<NL>>
    \o <<"t", "i", "t", "l", "e", ":", " ", "\"">> \o title \o <<"\"", NL>>
    \o <<"c", "a", "t", "e", "g", "o", "r", "y", ":", " ", "\"">> \o category \o <<"\"", NL>>
    \o <<"t", "a", "g", "s", ":", " ">> \o ReprList(tags) \o <<NL>>
    \o <<"l", "a", "s", "t", "_", "u", "p", "d", "a", "t", "e", "d", ":", " ", "\"">>
    \o last_edited \o <<"\"", NL>>
    \o <<"s", "u", "m", "m", "a", "r", "y", ":", " ", "\"">> \o summary \o <<"\"", NL>>
    \o Dashes \o <<NL, NL>>

\* save_markdown(page, markdown_body) on the filesystem f: whether it raised,
\* the filesystem it leaves and, when it returns, str(filepath) as printed.
save_markdown(page, body, f) ==
    LET t == ExtractTitle(page)
        c == ExtractCategory(page)
    IN IF t.raised \/ c.raised THEN [raised |-> TRUE, fs |-> f, filepath |-> <<>>]
       ELSE LET m == Mkdir(f, CategoryFolder(c.val))
                filepath == FilePath(t.val, c.val)
                frontmatter == Frontmatter(t.val, c.val, ExtractTags(page),
                                           page.last_edited_time, ExtractSummary(page))
                o == OpenWrite(m.fs, filepath, frontmatter \o body)
            IN IF m.raised THEN [raised |-> TRUE, fs |-> f, filepath |-> <<>>]
               ELSE IF o.raised THEN [raised |-> TRUE, fs |-> m.fs, filepath |-> <<>>]
               ELSE [raised |-> FALSE, fs |-> o.fs, filepath |-> PathStr(filepath)]

(***************************************************************************)
(* main().  An exception nothing catches leaves main: the run is over.     *)
(***************************************************************************)
\* A try/except around the loop body that goes on with the next page.
OnRaiseSkipPage(i, n) ==
    IF i < n THEN [pc |-> "fetch", idx |-> i + 1] ELSE [pc |-> "finish", idx |-> i]

\* Where an exception raised while page i of n is processed leaves the script.
OnRaise(i, n) == [pc |-> "aborted", idx |-> i]

\* The for loop: the next page, or the statement after the loop.
Advance(i, n) ==
    IF i < n THEN [pc |-> "fetch", idx |-> i + 1] ELSE [pc |-> "finish", idx |-> i]

Msg(m, a) == [msg |-> m, arg |-> a]

(***************************************************************************)
(* The inputs.                                                             *)
(***************************************************************************)
X == <<"x">>
Y == <<"y">>

Parts == {TextPart(<<>>), TextPart(X), TextPart(Y), TextPart(X \o Y), MentionPart, NullPart}

BlockTexts == {<<>>, <<TextPart(X)>>, <<TextPart(X), MentionPart, TextPart(Y)>>}

Python == <<"p", "y", "t", "h", "o", "n">>

Blocks ==
    {Block(t, rt, <<>>) : t \in RecognizedTypes \ {"code"}, rt \in BlockTexts}
    \cup {Block("code", rt, l) : rt \in BlockTexts, l \in {Python, <<>>}}
    \cup {Block("divider", <<>>, <<>>), Block("quote", <<TextPart(X)>>, <<>>)}

\* The characters of the titles and category names: a letter that lower()
\* changes, the space both slugs replace, and the path separator.
NameChars == {"B", " ", "/"}

Names == SeqsUpTo(NameChars, MaxLen) \ {<<>>}

TagNames == {<<"a">>, <<"b">>, <<"i", "t", "'", "s">>, <<"'", "\"">>}

SummaryParts == {TextPart(X), TextPart(Y), MentionPart}

Stamp == <<"2", "0", "2", "4">>

MyNote == <<"M", "y", " ", "N", "o", "t", "e">>
DeepDives == <<"D", "e", "e", "p", " ", "D", "i", "v", "e", "s">>

Titles ==
    {NoTitle, TitleOf(<<>>)} \cup {TitleOf(<<TextPart(n)>>) : n \in Names}
    \cup {TitleOf(<<TextPart(<<"B">>), TextPart(<<"B">>)>>)}

Categories == {NoCategory, NullCategory} \cup {CategoryOf(n) : n \in Names}

\* Pages whose title and category range widely.
PathPages ==
    {Page(<<"1">>, t, c, <<>>, sm, Stamp) :
        t \in Titles, c \in Categories, sm \in {<<>>, <<TextPart(X)>>}}
    \cup {Page(<<"1">>, TitleOf(<<TextPart(MyNote)>>), CategoryOf(DeepDives),
               <<<<"a">>, <<"b">>>>, <<>>, Stamp)}

\* Pages whose tags and summary range widely.
HeaderPages ==
    {Page(<<"1">>, t, CategoryOf(<<"B">>), tg, sm, Stamp) :
        t \in {TitleOf(<<TextPart(<<"B">>)>>)},
        tg \in SeqsUpTo(TagNames, MaxTags),
        sm \in SeqsUpTo(SummaryParts, MaxRuns)}

\* The pages of a whole run: two that resolve to one path, one elsewhere,
\* one without a category, one whose title holds a path separator.
MainPages ==
    {Page(<<>>, TitleOf(<<TextPart(<<"B">>)>>), CategoryOf(<<"B">>), <<>>, <<>>, Stamp),
     Page(<<>>, TitleOf(<<TextPart(<<"b">>)>>), CategoryOf(<<"b">>), <<<<"a">>>>,
          <<TextPart(X)>>, Stamp),
     Page(<<>>, TitleOf(<<TextPart(<<"C">>)>>), CategoryOf(<<"B">>), <<>>, <<>>, Stamp),
     Page(<<>>, TitleOf(<<TextPart(<<"B">>)>>), NullCategory, <<>>, <<>>, Stamp),
     Page(<<>>, TitleOf(<<TextPart(<<"B", "/", "C">>)>>), CategoryOf(<<"B">>), <<>>, <<>>,
          Stamp)}

MainBlockLists ==
    {<<>>, <<Block("paragraph", <<TextPart(X)>>, <<>>)>>,
     <<Block("heading_1", <<TextPart(Y)>>, <<>>), Block("divider", <<>>, <<>>)>>}

Bodies == {Ok(<<>>), Ok(<<"x", NL, NL>>)}

Id(k) == <<ToString(k)>>

EmptyTree == [dirs |-> {<<".">>, <<"/">>}, files |-> <<>>]

Old == <<"o", "l", "d">>

\* The tree a previous run left: notes/b/b.md with its content of then.
PreviousTree ==
    [dirs |-> {<<".">>, <<"/">>, <<"n", "o", "t", "e", "s">>,
               <<"n", "o", "t", "e", "s", "/", "b">>},
     files |-> [k \in {<<"n", "o", "t", "e", "s", "/", "b", "/", "b", ".", "m", "d">>} |-> Old]]

InitialTrees == {AfterImport(EmptyTree), AfterImport(PreviousTree)}

(***************************************************************************)
(* The state and the steps.                                                *)
(***************************************************************************)
NoHistory(f) == [fs0 |-> f, bodies |-> <<>>, fetched |-> <<>>, failedAt |-> 0]

Idle(f) ==
    /\ pages = <<>>
    /\ idx = 0
    /\ blocks = <<>>
    /\ markdown_body = Ok(<<>>)
    /\ fs = f
    /\ stdout = <<>>
    /\ rich_text_array = <<>>
    /\ text = Ok(<<>>)
    /\ saved = NoHistory(f)

Init ==
    /\ pc = "start"
    /\ \E f \in InitialTrees : Idle(f)

\* print("Fetching ..."); pages = query_database(): the request fails or
\* returns the published pages.
QueryDatabase ==
    /\ pc = "start"
    /\ \E ok \in BOOLEAN, ps \in SeqsUpTo(MainPages, MaxPages) :
        LET to == IF ok THEN Advance(0, Len(ps)) ELSE OnRaise(0, Len(ps)) IN
        /\ ok \/ ps = <<>>
        /\ pages' = [k \in 1..Len(ps) |-> [ps[k] EXCEPT !.id = Id(k)]]
        /\ pc' = to.pc
        /\ idx' = to.idx
        /\ stdout' = Append(stdout, Msg("Fetching", <<>>))
    /\ UNCHANGED <<blocks, markdown_body, fs, rich_text_array, text, saved>>

\* print("Processing ..."); blocks = get_page_content(page_id): the request
\* fails or returns the page's blocks.
GetPageContent ==
    /\ pc = "fetch"
    /\ \E ok \in BOOLEAN, bs \in MainBlockLists :
        LET to == IF ok THEN [pc |-> "convert", idx |-> idx] ELSE OnRaise(idx, Len(pages)) IN
        /\ ok \/ bs = <<>>
        /\ blocks' = IF ok THEN bs ELSE blocks
        /\ pc' = to.pc
        /\ idx' = to.idx
        /\ saved' = [saved EXCEPT !.fetched = Append(@, idx),
                                  !.failedAt = IF ok \/ @ # 0 THEN @ ELSE idx]
    /\ stdout' = Append(stdout, Msg("Processing", pages[idx].id))
    /\ UNCHANGED <<pages, markdown_body, fs, rich_text_array, text>>

\* markdown_body = blocks_to_markdown(blocks)
BlocksToMarkdown ==
    /\ pc = "convert"
    /\ LET md == blocks_to_markdown(blocks)
           to == IF md.raised THEN OnRaise(idx, Len(pages)) ELSE [pc |-> "save", idx |-> idx]
       IN /\ markdown_body' = md
          /\ pc' = to.pc
          /\ idx' = to.idx
          /\ saved' = [saved EXCEPT !.failedAt = IF md.raised /\ @ = 0 THEN idx ELSE @]
    /\ UNCHANGED <<pages, blocks, fs, stdout, rich_text_array, text>>

\* save_markdown(page, markdown_body), then the next iteration
SaveMarkdown ==
    /\ pc = "save"
    /\ LET r == save_markdown(pages[idx], markdown_body.val, fs)
           to == IF r.raised THEN OnRaise(idx, Len(pages)) ELSE Advance(idx, Len(pages))
       IN /\ fs' = r.fs
          /\ stdout' = IF r.raised THEN stdout ELSE Append(stdout, Msg("Saved", r.filepath))
          /\ pc' = to.pc
          /\ idx' = to.idx
          /\ saved' = [saved EXCEPT
                          !.bodies = IF r.raised THEN @
                                     ELSE Append(@, [idx |-> idx, body |-> markdown_body.val]),
                          !.failedAt = IF r.raised /\ @ = 0 THEN idx ELSE @]
    /\ UNCHANGED <<pages, blocks, markdown_body, rich_text_array, text>>

\* print("\nSync completed successfully!")
Finish ==
    /\ pc = "finish"
    /\ stdout' = Append(stdout, Msg("Sync completed successfully!", <<>>))
    /\ pc' = "done"
    /\ UNCHANGED <<pages, idx, blocks, markdown_body, fs, rich_text_array, text, saved>>

Next == QueryDatabase \/ GetPageContent \/ BlocksToMarkdown \/ SaveMarkdown \/ Finish

\* A whole run of the script.
Spec == Init /\ [][Next]_vars

\* One call of rich_text_to_plaintext.
Flatten ==
    /\ pc = "flatten"
    /\ text' = rich_text_to_plaintext(rich_text_array)
    /\ pc' = "flattened"
    /\ UNCHANGED <<pages, idx, blocks, markdown_body, fs, stdout, rich_text_array, saved>>

InitFlatten ==
    /\ pc = "flatten"
    /\ pages = <<>>
    /\ idx = 0
    /\ blocks = <<>>
    /\ markdown_body = Ok(<<>>)
    /\ fs = AfterImport(EmptyTree)
    /\ stdout = <<>>
    /\ rich_text_array \in SeqsUpTo(Parts, MaxRuns)
    /\ text = Ok(<<>>)
    /\ saved = NoHistory(fs)

SpecFlatten == InitFlatten /\ [][Flatten]_vars

OnePage(p) ==
    /\ pages = <<p>>
    /\ idx = 1
    /\ stdout = <<>>
    /\ rich_text_array = <<>>
    /\ text = Ok(<<>>)

\* One call of blocks_to_markdown, on every block list of the bound.
InitConvert ==
    /\ pc = "convert"
    /\ OnePage(CHOOSE p \in MainPages : p.tags # <<>>)
    /\ blocks \in SeqsUpTo(Blocks, MaxBlocks)
    /\ markdown_body = Ok(<<>>)
    /\ fs = AfterImport(EmptyTree)
    /\ saved = NoHistory(fs)

SpecConvert == InitConvert /\ [][BlocksToMarkdown]_vars

InitSave(ps, bodies, trees) ==
    /\ pc = "save"
    /\ \E p \in ps : OnePage(p)
    /\ blocks = <<>>
    /\ markdown_body \in bodies
    /\ fs \in trees
    /\ saved = NoHistory(fs)

\* One call of save_markdown, on pages of every title and category.
SpecSavePath == InitSave(PathPages, {Ok(<<"x", NL, NL>>)}, InitialTrees) /\ [][SaveMarkdown]_vars

\* One call of save_markdown, on pages of every tag list and summary.
SpecSaveHeader == InitSave(HeaderPages, Bodies, {AfterImport(EmptyTree)}) /\ [][SaveMarkdown]_vars

(***************************************************************************)
(* The properties.                                                         *)
(***************************************************************************)
\* What a run contributes, in the words of the specification: its content,
\* or nothing when it has none.
ContentOrEmpty(part) == IF part.text.kind = "obj" THEN part.text.content ELSE <<>>

ConcatOfContents(rt) == Flat([k \in 1..Len(rt) |-> ContentOrEmpty(rt[k])])

Recognized(b) == b.type \in RecognizedTypes

Insert(seq, j, e) == SubSeq(seq, 1, j) \o <<e>> \o SubSeq(seq, j + 1, Len(seq))

Converted == pc = "save" /\ ~markdown_body.raised

\* C1: the output of blocks_to_markdown on a block list is the concatenation,
\* in order and with nothing between, of its outputs on the blocks taken one
\* by one; a block of an unrecognized kind gives nothing, so the output is
\* unchanged by inserting one anywhere and by removing all of them, and a
\* recognized block always gives something.
C1_OrderedConcatenation ==
    pc # "convert" =>
        /\ Converted
        /\ markdown_body.val
             = Flat([k \in 1..Len(blocks) |-> blocks_to_markdown(<<blocks[k]>>).val])
        /\ \A j \in 0..Len(blocks) : \A u \in {b \in Blocks : ~Recognized(b)} :
              blocks_to_markdown(Insert(blocks, j, u)) = markdown_body
        /\ blocks_to_markdown(SelectSeq(blocks, Recognized)) = markdown_body
        /\ \A k \in 1..Len(blocks) :
              Recognized(blocks[k]) => blocks_to_markdown(<<blocks[k]>>).val # <<>>

\* C1 witness: a converted list of an unrecognized block and a heading, whose
\* output is the heading's fragment alone.
C1_Witness ==
    /\ Converted
    /\ Len(blocks) = 2
    /\ blocks[1].type = "quote"
    /\ blocks[2].type = "heading_2"
    /\ markdown_body.val = <<"#", "#", " ", "x", NL, NL>>

TableFragment(b) ==
    LET t == ConcatOfContents(b.rich_text) IN
    CASE b.type = "paragraph" -> t \o <<NL, NL>>
      [] b.type = "heading_1" -> <<"#", " ">> \o t \o <<NL, NL>>
      [] b.type = "heading_2" -> <<"#", "#", " ">> \o t \o <<NL, NL>>
      [] b.type = "heading_3" -> <<"#", "#", "#", " ">> \o t \o <<NL, NL>>
      [] b.type = "bulleted_list_item" -> <<"-", " ">> \o t \o <<NL>>
      [] b.type = "numbered_list_item" -> <<"1", ".", " ">> \o t \o <<NL>>
      [] b.type = "code" ->
            <<BQ, BQ, BQ>> \o b.language \o <<NL>> \o t \o <<NL>> \o <<BQ, BQ, BQ>> \o <<NL, NL>>

\* C10: a list of recognized blocks converts to the fragments of the dispatch
\* table, one after the other: every numbered item carries the marker "1."
\* whatever its position.
C10_DispatchTable ==
    (pc # "convert" /\ \A k \in 1..Len(blocks) : Recognized(blocks[k])) =>
        markdown_body = Ok(Flat([k \in 1..Len(blocks) |-> TableFragment(blocks[k])]))

\* C10 witness: two numbered items in a row, both rendered with "1.".
C10_Witness ==
    /\ Converted
    /\ Len(blocks) = 2
    /\ blocks[1].type = "numbered_list_item"
    /\ blocks[2].type = "numbered_list_item"
    /\ markdown_body.val = <<"1", ".", " ", "x", NL, "1", ".", " ", NL>>

\* The page a single call of save_markdown is given.
ThePage == pages[1]

Returned == pc = "finish"
Failed == pc = "aborted"

\* The file every page of HeaderPages resolves to.
HeaderFile == <<"n", "o", "t", "e", "s", "/", "b", "/", "b", ".", "m", "d">>

\* C3: the summary of the written header is the flattener's result on the
\* whole rich-text list of Summary: all the runs, in order.  (Stated for
\* summaries of text runs, whose plain_text is their content.)
C3_SummaryIsWholeList ==
    (Returned /\ \A k \in 1..Len(ThePage.summary) : ThePage.summary[k].text.kind = "obj") =>
        fs.files[HeaderFile]
          = Frontmatter(ThePage.title.list[1].plain_text, ThePage.category.name,
                        ThePage.tags, ThePage.last_edited_time,
                        rich_text_to_plaintext(ThePage.summary).val)
            \o markdown_body.val

Quoted(v) == <<"\"">> \o v \o <<"\"">>

Field(name, rendered) == name \o <<":", " ">> \o rendered

TitleKey == <<"t", "i", "t", "l", "e">>
CategoryKey == <<"c", "a", "t", "e", "g", "o", "r", "y">>
TagsKey == <<"t", "a", "g", "s">>
LastUpdatedKey == <<"l", "a", "s", "t", "_", "u", "p", "d", "a", "t", "e", "d">>
SummaryKey == <<"s", "u", "m", "m", "a", "r", "y">>

\* A tag as Python writes a string: in single quotes, a single quote inside
\* escaped, unless the tag holds a single quote and no double quote, when it
\* is in double quotes.
PythonQuoted(tg) ==
    IF "'" \in Chars(tg) /\ "\"" \notin Chars(tg) THEN Quoted(tg)
    ELSE <<"'">>
         \o Flat([k \in 1..Len(tg) |-> IF tg[k] = "'" THEN <<"\\", "'">> ELSE <<tg[k]>>])
         \o <<"'">>

ListOf(items) == <<"[">> \o join(<<",", " ">>, items) \o <<"]">>

\* The lines of the written file, and what follows its first eight lines.
FileLines == SplitOn(fs.files[HeaderFile], NL)
AfterHeader == join(<<NL>>, SubSeq(FileLines, 9, Len(FileLines)))

\* The header of the written file has the shape the claim gives it, with
\* the tags rendered by quote.
HeaderShape(quote(_)) ==
    /\ Len(FileLines) >= 9
    /\ FileLines[1] = Dashes
    /\ FileLines[2] = Field(TitleKey, Quoted(ThePage.title.list[1].plain_text))
    /\ FileLines[3] = Field(CategoryKey, Quoted(ThePage.category.name))
    /\ FileLines[4] = Field(TagsKey, ListOf([k \in 1..Len(ThePage.tags) |-> quote(ThePage.tags[k])]))
    /\ FileLines[5] = Field(LastUpdatedKey, Quoted(ThePage.last_edited_time))
    /\ \E v \in {SubSeq(FileLines[6], Len(SummaryKey) + 4, Len(FileLines[6]) - 1)} :
          FileLines[6] = Field(SummaryKey, Quoted(v))
    /\ ThePage.summary = <<>> => FileLines[6] = Field(SummaryKey, Quoted(<<>>))
    /\ FileLines[7] = Dashes
    /\ FileLines[8] = <<>>
    /\ AfterHeader = markdown_body.val

\* C4 as amended: the header is the line of three hyphens, the fields title,
\* category, tags, last_updated, summary in that order, three hyphens and a
\* blank line, then the body; every value is in double quotes except tags,
\* a list of strings quoted as Python quotes them (tags a and b: ['a', 'b']).
C4_HeaderPythonTags == Returned => HeaderShape(PythonQuoted)

\* C4 as claimed: the tags are a list of double-quoted strings.
C4_HeaderDoubleQuotedTags == Returned => HeaderShape(Quoted)

\* C4 witness: a page with the tags a and b and no summary, written with
\* the tags field ['a', 'b'] and the summary field "".
C4_Witness ==
    /\ Returned
    /\ ThePage.tags = <<<<"a">>, <<"b">>>>
    /\ ThePage.summary = <<>>
    /\ FileLines[4] = <<"t", "a", "g", "s", ":", " ", "[", "'", "a", "'", ",", " ", "'", "b", "'", "]">>
    /\ FileLines[6] = <<"s", "u", "m", "m", "a", "r", "y", ":", " ", "\"", "\"">>

HasTitle(p) == p.title.kind = "list" /\ p.title.list # <<>>
HasCategory(p) == p.category.kind = "obj"

\* Lowercased, every space replaced by sep.
Slug(str, sep) == [k \in 1..Len(str) |-> IF str[k] = " " THEN sep ELSE LowerChar(str[k])]

ClaimedPath(title, category) ==
    <<"n", "o", "t", "e", "s", "/">> \o Slug(category, "-") \o <<"/">>
    \o Slug(title, "_") \o <<".", "m", "d">>

NoSeparator(str) == "/" \notin Chars(str)

\* C5: a page with a title and a category is written to
\* notes/<category slug>/<title slug>.md, whatever else it holds.  (Stated
\* for titles without a path separator.)
C5_PathIsNotesCategoryTitle ==
    (pc # "save" /\ HasTitle(ThePage) /\ HasCategory(ThePage)
       /\ NoSeparator(ThePage.title.list[1].plain_text)) =>
        LET path == ClaimedPath(ThePage.title.list[1].plain_text, ThePage.category.name) IN
        Returned =>
            /\ stdout[Len(stdout)] = Msg("Saved", path)
            /\ path \in DOMAIN fs.files

\* C6: without a title or without a category save_markdown raises and
\* leaves the filesystem as it found it: no file written or truncated, no
\* directory created.
C6_MissingFieldTouchesNothing ==
    (pc # "save" /\ ~(HasTitle(ThePage) /\ HasCategory(ThePage))) =>
        /\ Failed
        /\ fs = saved.fs0
        /\ stdout = <<>>

\* C6 witness: a failed call on a page with a title and a null category, on
\* a tree that holds a file of a previous run.
C6_Witness ==
    /\ Failed
    /\ HasTitle(ThePage)
    /\ ThePage.category.kind = "null"
    /\ DOMAIN fs.files # {}
    /\ fs = saved.fs0

\* C7: for a page with a title and a category, every directory of the
\* derived path exists when the file is opened (the directories are those
\* left by the call: opening creates none).  (Stated for categories
\* without a path separator and titles that neither start nor end with one.)
C7_DirectoriesExistAtOpen ==
    (pc # "save" /\ HasTitle(ThePage) /\ HasCategory(ThePage)
       /\ NoSeparator(ThePage.category.name)
       /\ Head(ThePage.title.list[1].plain_text) # "/"
       /\ ThePage.title.list[1].plain_text[Len(ThePage.title.list[1].plain_text)] # "/") =>
        LET path == FilePath(ThePage.title.list[1].plain_text, ThePage.category.name) IN
        \A k \in 0..(Len(path.parts) - 1) : FsKey(Prefix(path, k)) \in fs.dirs

Completed == \E k \in 1..Len(stdout) : stdout[k].msg = "Sync completed successfully!"

Upto(n) == [k \in 1..n |-> k]

WrittenPositions == [k \in 1..Len(saved.bodies) |-> saved.bodies[k].idx]

\* Pages are fetched and written one at a time in the order of the query;
\* once a step has failed for page i nothing later is fetched, nothing from
\* i on is written and the success message is not printed; the success
\* message comes only after every page is written.
SequentialAndAborting ==
    /\ saved.fetched = Upto(Len(saved.fetched))
    /\ WrittenPositions = Upto(Len(saved.bodies))
    /\ Len(saved.bodies) <= Len(saved.fetched)
    /\ Len(saved.fetched) <= Len(saved.bodies) + 1
    /\ saved.failedAt # 0 =>
          /\ Len(saved.fetched) = saved.failedAt
          /\ Len(saved.bodies) = saved.failedAt - 1
          /\ ~Completed
    /\ Completed => Len(saved.bodies) = Len(pages) /\ saved.failedAt = 0

\* C8: pages are processed in query order, each fetched, converted and
\* written; a failure for page i aborts the run: no later page is fetched or
\* written, the files stay as they are from then on, and the success message
\* is printed only after every page has been written.
C8_FailureAbortsRun ==
    /\ []SequentialAndAborting
    /\ [][saved.failedAt # 0 => fs' = fs]_vars

\* C8 witness: the run aborted at the second page, the first one written.
C8_Witness ==
    /\ pc = "aborted"
    /\ saved.failedAt = 2
    /\ Len(saved.bodies) = 1
    /\ Len(pages) = 2
    /\ stdout[Len(stdout)].msg = "Processing"
    /\ DOMAIN fs.files # DOMAIN saved.fs0.files

PathOfPage(p) == FsKey(FilePath(ExtractTitle(p).val, ExtractCategory(p).val))

HeaderOfPage(p) ==
    Frontmatter(ExtractTitle(p).val, ExtractCategory(p).val, ExtractTags(p),
                p.last_edited_time, ExtractSummary(p))

Writers(key) == {k \in 1..Len(pages) : PathOfPage(pages[k]) = key}

Last(S) == CHOOSE k \in S : \A m \in S : m <= k

\* C9: after a completed run the file at every output path is the header
\* followed by the body of the last page, in query order, that resolved to
\* it, and nothing else; every other file is as it was before the run.
C9_LastWriteWins ==
    pc = "done" =>
        /\ \A k \in 1..Len(pages) : PathOfPage(pages[k]) \in DOMAIN fs.files
        /\ \A key \in DOMAIN fs.files :
              IF Writers(key) = {}
              THEN key \in DOMAIN saved.fs0.files /\ fs.files[key] = saved.fs0.files[key]
              ELSE fs.files[key]
                     = HeaderOfPage(pages[Last(Writers(key))])
                       \o saved.bodies[Last(Writers(key))].body

\* C9 witness: a completed run of two pages that resolve to the file a
\* previous run left, with different headers and bodies.
C9_Witness ==
    /\ pc = "done"
    /\ Len(pages) = 2
    /\ PathOfPage(pages[1]) = PathOfPage(pages[2])
    /\ PathOfPage(pages[1]) \in DOMAIN saved.fs0.files
    /\ HeaderOfPage(pages[1]) # HeaderOfPage(pages[2])
    /\ saved.bodies[1].body # saved.bodies[2].body

====
